---- MODULE Spec2Model ----
(***************************************************************************)
(* Model of app/routes/collections.$handle.jsx: the route loader           *)
(* (loadCriticalData) and the module-level image carousel (currentSlide,   *)
(* arrow flags, the interval timer and the handlers wired to the arrow     *)
(* buttons, the window and the document).                                  *)
(*                                                                         *)
(* Three specifications:                                                   *)
(*   Spec        the carousel driven by browser events;                    *)
(*   SpecFn      scrollSlider as a function of (offset, imageCount,        *)
(*               innerWidth), applied to every offset in [0, imageCount);  *)
(*   SpecLoader  one run of loader/loadCriticalData.                       *)
(***************************************************************************)
EXTENDS Integers, Sequences, FiniteSets

\* ------------------------------------------------------------------ bounds
MaxImages == 6
MaxImagesFn == 35
MaxTimers == 4
MaxIndex == 2
MaxSteps == 2
NumHandles == 2
MaxCursor == 2

\* ------------------------------------------------------- program constants
originalImagesCount == 34
pageBy == 8
lgBreakpoint == 1024
mdBreakpoint == 768
NotFoundStatus == 404

null == 0
NoHandle == 0

Directions == {"left", "right"}
Widths == {mdBreakpoint - 1, mdBreakpoint, lgBreakpoint - 1, lgBreakpoint}
ImageCounts == (1 .. MaxImages) \cup {originalImagesCount}
ImageCountsFn == 1 .. MaxImagesFn
Handles == 1 .. NumHandles

VARIABLES
  imageCount,      \* images.length: the slide track holds 2 * imageCount children
  innerWidth,      \* window.innerWidth
  mounted,         \* the #imageSlider element and the two arrow buttons exist
  currentSlide,
  showLeftArrow,
  showRightArrow,
  scrollInterval,  \* stored interval handle, or null
  timers,          \* the browser's live interval timers
  nextTimerId,     \* next handle setInterval returns
  transform,       \* slider.style.transform, as the fraction num/den percent
  leftDisplay,     \* style.display of the "Previous images" button
  rightDisplay,    \* style.display of the "Next images" button
  gesture,         \* position of the pointer gesture on an arrow button
  event,           \* the handler that ran last
  firstCall,       \* who made the first scrollSlider call of the gesture
  startsInRow,     \* startScrolling calls since the last stopScrolling (capped at 2)
  start,           \* SpecFn: the offset scrollSlider was first applied to
  path,            \* SpecFn: the directions applied so far
  paramsHandle,    \* params.handle (NoHandle: missing)
  store,           \* handles for which the storefront has a collection
  requestDirection,
  requestCursor,
  loaderPc,
  queries,         \* storefront.query calls issued
  outcome          \* what loader() ended in

carouselVars == <<imageCount, innerWidth, mounted, currentSlide, showLeftArrow,
                  showRightArrow, scrollInterval, timers, nextTimerId, transform,
                  leftDisplay, rightDisplay, gesture, event, firstCall, startsInRow>>
fnVars == <<start, path>>
loaderVars == <<paramsHandle, store, requestDirection, requestCursor, loaderPc,
                queries, outcome>>
vars == <<carouselVars, fnVars, loaderVars>>

\* ------------------------------------------------------------ pure helpers
getImagesPerRow(width) ==
  IF width >= lgBreakpoint THEN 5
  ELSE IF width >= mdBreakpoint THEN 3
  ELSE 1

\* slider.children.length / 2: the originals followed by their duplicates
sliderOriginalImagesCount(count) == (2 * count) \div 2

\* variant: the left wrap clamps at 0 instead of jumping to count - perRow
scrollSliderOffset_ClampLeft(direction, cur, count, perRow) ==
  IF direction = "left"
  THEN IF cur - perRow < 0 THEN 0 ELSE cur - perRow
  ELSE IF cur + perRow >= count THEN 0 ELSE cur + perRow

\* variant: the right branch never wraps
scrollSliderOffset_NoRightWrap(direction, cur, count, perRow) ==
  IF direction = "left"
  THEN IF cur - perRow < 0 THEN count - perRow ELSE cur - perRow
  ELSE cur + perRow

scrollSliderOffset(direction, cur, count, perRow) ==
  IF direction = "left"
  THEN IF cur - perRow < 0 THEN count - perRow ELSE cur - perRow
  ELSE IF cur + perRow >= count THEN 0 ELSE cur + perRow

goToSlideOffset(index, perRow) == index * perRow

arrowLeft(cur) == cur > 0

arrowRight(cur, perRow) == cur < originalImagesCount - perRow

slidePercentage(cur, perRow) == [num |-> cur * 100, den |-> perRow * perRow]

NoTransform == [num |-> 0, den |-> 1]

display(flag) == IF flag THEN "flex" ELSE "none"

\* ------------------------------------------------- handler building blocks
updateSlider(cur, width) ==
  IF mounted
  THEN transform' = slidePercentage(cur, getImagesPerRow(width))
  ELSE transform' = transform

updateArrowVisibility(cur, width) ==
  /\ showLeftArrow' = arrowLeft(cur)
  /\ showRightArrow' = arrowRight(cur, getImagesPerRow(width))
  /\ IF mounted
     THEN /\ leftDisplay' = display(showLeftArrow')
          /\ rightDisplay' = display(showRightArrow')
     ELSE UNCHANGED <<leftDisplay, rightDisplay>>

\* variant: no early return when the slide track is absent
scrollSlider_NoGuard(direction) ==
  /\ currentSlide' = scrollSliderOffset(direction, currentSlide,
                        sliderOriginalImagesCount(imageCount),
                        getImagesPerRow(innerWidth))
  /\ updateSlider(currentSlide', innerWidth)
  /\ updateArrowVisibility(currentSlide', innerWidth)

scrollSlider(direction) ==
  IF ~mounted
  THEN UNCHANGED <<currentSlide, showLeftArrow, showRightArrow, transform,
                   leftDisplay, rightDisplay>>
  ELSE /\ currentSlide' = scrollSliderOffset(direction, currentSlide,
                             sliderOriginalImagesCount(imageCount),
                             getImagesPerRow(innerWidth))
       /\ updateSlider(currentSlide', innerWidth)
       /\ updateArrowVisibility(currentSlide', innerWidth)

\* variant: the stored interval is not cleared before a new one is created
startScrolling_NoClear(direction) ==
  /\ nextTimerId <= MaxTimers
  /\ timers' = timers \cup {[id |-> nextTimerId, direction |-> direction]}
  /\ scrollInterval' = nextTimerId
  /\ nextTimerId' = nextTimerId + 1
  /\ startsInRow' = IF startsInRow < 2 THEN startsInRow + 1 ELSE 2

startScrolling(direction) ==
  /\ nextTimerId <= MaxTimers
  /\ timers' = (IF scrollInterval # null
                THEN {t \in timers : t.id # scrollInterval}
                ELSE timers)
               \cup {[id |-> nextTimerId, direction |-> direction]}
  /\ scrollInterval' = nextTimerId
  /\ nextTimerId' = nextTimerId + 1
  /\ startsInRow' = IF startsInRow < 2 THEN startsInRow + 1 ELSE 2

stopScrolling ==
  /\ IF scrollInterval # null
     THEN /\ timers' = {t \in timers : t.id # scrollInterval}
          /\ scrollInterval' = null
     ELSE UNCHANGED <<timers, scrollInterval>>
  /\ startsInRow' = 0
  /\ UNCHANGED nextTimerId

handleArrowClick(direction) ==
  /\ scrollSlider(direction)
  /\ startScrolling(direction)

\* ------------------------------------------------------------------- Init
InitFnIdle == start = 0 /\ path = <<>>

InitLoaderIdle ==
  /\ paramsHandle = NoHandle
  /\ store = {}
  /\ requestDirection = "next"
  /\ requestCursor = null
  /\ loaderPc = "idle"
  /\ queries = <<>>
  /\ outcome = [kind |-> "none"]

InitCarousel ==
  /\ imageCount \in ImageCounts
  /\ innerWidth \in Widths
  /\ mounted = FALSE
  /\ currentSlide = 0
  /\ showLeftArrow = FALSE
  /\ showRightArrow = TRUE
  /\ scrollInterval = null
  /\ timers = {}
  /\ nextTimerId = 1
  /\ transform = NoTransform
  /\ leftDisplay = "absent"
  /\ rightDisplay = "absent"
  /\ gesture = "idle"
  /\ event = "load"
  /\ firstCall = "none"
  /\ startsInRow = 0

Init == InitCarousel /\ InitFnIdle /\ InitLoaderIdle

\* ---------------------------------------------------------------- actions
\* React renders <Collection/>: the slide track and the buttons appear
Mount ==
  /\ ~mounted
  /\ gesture = "idle"
  /\ mounted' = TRUE
  /\ transform' = NoTransform
  /\ leftDisplay' = "default"
  /\ rightDisplay' = "default"
  /\ event' = "mount"
  /\ UNCHANGED <<imageCount, innerWidth, currentSlide, showLeftArrow, showRightArrow,
                 scrollInterval, timers, nextTimerId, gesture, firstCall, startsInRow>>
  /\ UNCHANGED <<fnVars, loaderVars>>

\* navigation away: the elements are removed, the module state stays
Unmount ==
  /\ mounted
  /\ gesture = "idle"
  /\ mounted' = FALSE
  /\ transform' = NoTransform
  /\ leftDisplay' = "absent"
  /\ rightDisplay' = "absent"
  /\ event' = "unmount"
  /\ UNCHANGED <<imageCount, innerWidth, currentSlide, showLeftArrow, showRightArrow,
                 scrollInterval, timers, nextTimerId, gesture, firstCall, startsInRow>>
  /\ UNCHANGED <<fnVars, loaderVars>>

\* onMouseDown={() => startScrolling(direction)}
MouseDown(direction) ==
  /\ mounted
  /\ gesture = "idle"
  /\ startScrolling(direction)
  /\ gesture' = "down"
  /\ firstCall' = "none"
  /\ event' = "mousedown"
  /\ UNCHANGED <<imageCount, innerWidth, mounted, currentSlide, showLeftArrow,
                 showRightArrow, transform, leftDisplay, rightDisplay>>
  /\ UNCHANGED <<fnVars, loaderVars>>

\* onMouseUp={stopScrolling} on the button
MouseUpButton ==
  /\ mounted
  /\ gesture = "down"
  /\ stopScrolling
  /\ gesture' = "upButton"
  /\ event' = "mouseup"
  /\ UNCHANGED <<imageCount, innerWidth, mounted, currentSlide, showLeftArrow,
                 showRightArrow, transform, leftDisplay, rightDisplay, firstCall>>
  /\ UNCHANGED <<fnVars, loaderVars>>

\* document.addEventListener('mouseup', stopScrolling)
MouseUpDocument ==
  /\ gesture \in {"upButton", "out", "idle"}
  /\ stopScrolling
  /\ gesture' = (IF gesture = "upButton" THEN "upDoc" ELSE "idle")
  /\ event' = "docmouseup"
  /\ UNCHANGED <<imageCount, innerWidth, mounted, currentSlide, showLeftArrow,
                 showRightArrow, transform, leftDisplay, rightDisplay, firstCall>>
  /\ UNCHANGED <<fnVars, loaderVars>>

\* onMouseLeave={stopScrolling} on the button
MouseLeaveButton ==
  /\ mounted
  /\ gesture \in {"down", "idle"}
  /\ stopScrolling
  /\ gesture' = (IF gesture = "down" THEN "out" ELSE "idle")
  /\ event' = "mouseleave"
  /\ UNCHANGED <<imageCount, innerWidth, mounted, currentSlide, showLeftArrow,
                 showRightArrow, transform, leftDisplay, rightDisplay, firstCall>>
  /\ UNCHANGED <<fnVars, loaderVars>>

\* document.addEventListener('mouseleave', stopScrolling)
MouseLeaveDocument ==
  /\ gesture \in {"out", "idle"}
  /\ stopScrolling
  /\ event' = "docmouseleave"
  /\ UNCHANGED <<imageCount, innerWidth, mounted, currentSlide, showLeftArrow,
                 showRightArrow, transform, leftDisplay, rightDisplay, gesture,
                 firstCall>>
  /\ UNCHANGED <<fnVars, loaderVars>>

\* onClick={() => handleArrowClick(direction)}, the click that ends a
\* press-release on the button
Click(direction) ==
  /\ mounted
  /\ gesture = "upDoc"
  /\ handleArrowClick(direction)
  /\ gesture' = "idle"
  /\ firstCall' = (IF firstCall = "none" THEN "manual" ELSE firstCall)
  /\ event' = "click"
  /\ UNCHANGED <<imageCount, innerWidth, mounted>>
  /\ UNCHANGED <<fnVars, loaderVars>>

\* the same onClick handler reached by keyboard activation (Enter/Space):
\* no mousedown or mouseup comes with it
KeyClick(direction) ==
  /\ mounted
  /\ gesture = "idle"
  /\ handleArrowClick(direction)
  /\ firstCall' = "manual"
  /\ event' = "keyclick"
  /\ UNCHANGED <<imageCount, innerWidth, mounted, gesture>>
  /\ UNCHANGED <<fnVars, loaderVars>>

\* the setInterval callback: () => scrollSlider(direction)
Tick ==
  /\ \E t \in timers : scrollSlider(t.direction)
  /\ firstCall' = (IF gesture # "idle" /\ firstCall = "none" THEN "timer" ELSE firstCall)
  /\ event' = "tick"
  /\ UNCHANGED <<imageCount, innerWidth, mounted, scrollInterval, timers, nextTimerId,
                 gesture, startsInRow>>
  /\ UNCHANGED <<fnVars, loaderVars>>

goToSlide(index) ==
  /\ currentSlide' = goToSlideOffset(index, getImagesPerRow(innerWidth))
  /\ updateSlider(currentSlide', innerWidth)
  /\ updateArrowVisibility(currentSlide', innerWidth)
  /\ event' = "goToSlide"
  /\ UNCHANGED <<imageCount, innerWidth, mounted, scrollInterval, timers, nextTimerId,
                 gesture, firstCall, startsInRow>>
  /\ UNCHANGED <<fnVars, loaderVars>>

\* variant: the resize listener keeps the offset
Resize_NoReset(width) ==
  /\ innerWidth' = width
  /\ currentSlide' = currentSlide
  /\ updateSlider(currentSlide', width)
  /\ updateArrowVisibility(currentSlide', width)
  /\ event' = "resize"
  /\ UNCHANGED <<imageCount, mounted, scrollInterval, timers, nextTimerId,
                 gesture, firstCall, startsInRow>>
  /\ UNCHANGED <<fnVars, loaderVars>>

\* window.addEventListener('resize', ...)
Resize(width) ==
  /\ innerWidth' = width
  /\ currentSlide' = 0
  /\ updateSlider(currentSlide', width)
  /\ updateArrowVisibility(currentSlide', width)
  /\ event' = "resize"
  /\ UNCHANGED <<imageCount, mounted, scrollInterval, timers, nextTimerId,
                 gesture, firstCall, startsInRow>>
  /\ UNCHANGED <<fnVars, loaderVars>>

Next ==
  \/ Mount
  \/ Unmount
  \/ \E d \in Directions : MouseDown(d)
  \/ MouseUpButton
  \/ MouseUpDocument
  \/ MouseLeaveButton
  \/ MouseLeaveDocument
  \/ \E d \in Directions : Click(d)
  \/ \E d \in Directions : KeyClick(d)
  \/ Tick
  \/ \E i \in 0 .. MaxIndex : goToSlide(i)
  \/ \E w \in Widths : Resize(w)

Spec == Init /\ [][Next]_vars

\* ------------------------------------------- SpecFn: scrollSlider applied
InitFn ==
  /\ imageCount \in ImageCountsFn
  /\ innerWidth \in Widths
  /\ mounted = TRUE
  /\ currentSlide \in 0 .. (imageCount - 1)
  /\ start = currentSlide
  /\ path = <<>>
  /\ showLeftArrow = arrowLeft(currentSlide)
  /\ showRightArrow = arrowRight(currentSlide, getImagesPerRow(innerWidth))
  /\ scrollInterval = null
  /\ timers = {}
  /\ nextTimerId = 1
  /\ transform = slidePercentage(currentSlide, getImagesPerRow(innerWidth))
  /\ leftDisplay = display(showLeftArrow)
  /\ rightDisplay = display(showRightArrow)
  /\ gesture = "idle"
  /\ event = "load"
  /\ firstCall = "none"
  /\ startsInRow = 0
  /\ InitLoaderIdle

ApplyScrollSlider(direction) ==
  /\ Len(path) < MaxSteps
  /\ scrollSlider(direction)
  /\ path' = Append(path, direction)
  /\ UNCHANGED <<imageCount, innerWidth, mounted, scrollInterval, timers, nextTimerId,
                 gesture, event, firstCall, startsInRow, start>>
  /\ UNCHANGED loaderVars

NextFn == \E d \in Directions : ApplyScrollSlider(d)

SpecFn == InitFn /\ [][NextFn]_vars

\* --------------------------------------------------- SpecLoader: loader()
paginationVariables ==
  IF requestDirection = "previous"
  THEN [last |-> pageBy, startCursor |-> requestCursor]
  ELSE [first |-> pageBy, endCursor |-> requestCursor]

InitLoader ==
  /\ paramsHandle \in {NoHandle} \cup Handles
  /\ store \in SUBSET Handles
  /\ requestDirection \in {"next", "previous"}
  /\ requestCursor \in 0 .. MaxCursor
  /\ loaderPc = "start"
  /\ queries = <<>>
  /\ outcome = [kind |-> "none"]
  /\ imageCount = originalImagesCount
  /\ innerWidth = lgBreakpoint
  /\ InitCarousel
  /\ InitFnIdle

\* variant: the query is issued without testing the handle
loadCriticalData_NoHandleCheck ==
  /\ loaderPc = "start"
  /\ queries' = Append(queries, [handle |-> paramsHandle,
                                 variables |-> paginationVariables])
  /\ loaderPc' = "awaiting"
  /\ UNCHANGED outcome
  /\ UNCHANGED <<paramsHandle, store, requestDirection, requestCursor>>
  /\ UNCHANGED <<carouselVars, fnVars>>

\* loader -> loadDeferredData, then loadCriticalData up to its await
loadCriticalData ==
  /\ loaderPc = "start"
  /\ IF paramsHandle = NoHandle
     THEN /\ outcome' = [kind |-> "redirect", to |-> "/collections"]
          /\ loaderPc' = "done"
          /\ UNCHANGED queries
     ELSE /\ queries' = Append(queries, [handle |-> paramsHandle,
                                          variables |-> paginationVariables])
          /\ loaderPc' = "awaiting"
          /\ UNCHANGED outcome
  /\ UNCHANGED <<paramsHandle, store, requestDirection, requestCursor>>
  /\ UNCHANGED <<carouselVars, fnVars>>

\* the storefront answers; loadCriticalData resumes after the await
QueryResolves ==
  /\ loaderPc = "awaiting"
  /\ IF paramsHandle \notin store
     THEN outcome' = [kind |-> "response", status |-> NotFoundStatus,
                      handle |-> paramsHandle]
     ELSE \E localized \in BOOLEAN :
            outcome' = IF localized
                       THEN [kind |-> "redirect", to |-> "localized"]
                       ELSE [kind |-> "data", collection |-> paramsHandle]
  /\ loaderPc' = "done"
  /\ UNCHANGED <<paramsHandle, store, requestDirection, requestCursor, queries>>
  /\ UNCHANGED <<carouselVars, fnVars>>

\* the storefront query rejects; the rejection leaves loader()
QueryRejects ==
  /\ loaderPc = "awaiting"
  /\ outcome' = [kind |-> "error"]
  /\ loaderPc' = "done"
  /\ UNCHANGED <<paramsHandle, store, requestDirection, requestCursor, queries>>
  /\ UNCHANGED <<carouselVars, fnVars>>

NextLoader ==
  \/ loadCriticalData
  \/ QueryResolves
  \/ QueryRejects

SpecLoader == InitLoader /\ [][NextLoader]_vars

\* ----------------------------------------------------------------- claims
imagesPerRow == getImagesPerRow(innerWidth)

\* C1: scrollSlider applied to an offset in [0, imageCount) leaves
\* currentSlide in [0, imageCount), for every imageCount >= 1 and every
\* imagesPerRow in {1,3,5}.
C1_OffsetInRange == 0 <= currentSlide /\ currentSlide < imageCount

\* C2: at most one interval timer is live, it is the one scrollInterval
\* stores, and once stopScrolling has nulled scrollInterval no timer is left
\* to fire.
C2_AtMostOneTimer ==
  /\ Cardinality(timers) <= 1
  /\ \A t \in timers : t.id = scrollInterval
  /\ (scrollInterval = null => timers = {})
  /\ (startsInRow > 0 => Cardinality(timers) = 1)

C2_StartedTwiceInRow == startsInRow = 2 /\ Cardinality(timers) = 1

\* C3: once the last handler of a press-release gesture (the click) has run,
\* scrollInterval is null and no timer is live.
C3_ReleaseStopsTimer == event = "click" => (scrollInterval = null /\ timers = {})

\* C4: in every pointer gesture the scrollSlider call made by
\* handleArrowClick is the first scrollSlider call of the gesture: no timer
\* tick precedes it.
C4_ManualBeforeTimer == event = "click" => firstCall = "manual"

\* C5: the arrow flags are a function of currentSlide, imagesPerRow and the
\* image count of the slide track:
\* showLeftArrow = (currentSlide > 0), showRightArrow = (currentSlide < N - imagesPerRow),
\* N being the image count of the rendered slide track.
C5_ArrowsFollowImageCount ==
  mounted =>
    /\ showLeftArrow = (currentSlide > 0)
    /\ showRightArrow = (currentSlide < imageCount - imagesPerRow)

Scenario(from, dir) ==
  /\ imageCount = 34
  /\ imagesPerRow = 5
  /\ start = from
  /\ path = <<dir>>

\* C7 as stated: imageCount 34, imagesPerRow 5: left from 0 yields 30, right
\* from 30 yields 0, right from 33 yields 0.
C7_WrapScenario30 ==
  /\ Scenario(0, "left") => currentSlide = 30
  /\ Scenario(30, "right") => currentSlide = 0
  /\ Scenario(33, "right") => currentSlide = 0

\* C7 amended: imageCount 34, imagesPerRow 5: left from 0 yields 29
\* (imageCount - imagesPerRow), right from 30 yields 0, right from 33 yields 0.
C7_WrapScenario29 ==
  /\ Scenario(0, "left") => currentSlide = 29
  /\ Scenario(30, "right") => currentSlide = 0
  /\ Scenario(33, "right") => currentSlide = 0

C7_LeftFromZero == Scenario(0, "left") /\ currentSlide = 29

CarouselState == <<currentSlide, showLeftArrow, showRightArrow>>

\* C8 as stated: while the slide track is absent every handler leaves
\* currentSlide, showLeftArrow and showRightArrow unchanged.
C8_AbsentEveryHandlerNoOp ==
  [][(~mounted /\ ~mounted') => UNCHANGED CarouselState]_vars

\* C8 amended: while the slide track is absent the handlers that go through
\* scrollSlider (arrow click, timer tick) leave currentSlide, showLeftArrow
\* and showRightArrow unchanged; resize and goToSlide still set currentSlide
\* and recompute the flags.
C8_AbsentScrollSliderNoOp ==
  [][(~mounted /\ ~mounted' /\ event' \in {"tick", "click", "keyclick"})
       => UNCHANGED CarouselState]_vars

C8_TickWhileAbsent == ~mounted /\ event = "tick" /\ currentSlide > 0

\* C9: a missing handle ends in a redirect to /collections with no query
\* issued; a handle without a collection ends in a 404 response; data is
\* returned only for a handle whose collection was found.
C9_LoaderOutcomes ==
  /\ (paramsHandle = NoHandle => queries = <<>>)
  /\ ((loaderPc = "done" /\ paramsHandle = NoHandle)
        => outcome = [kind |-> "redirect", to |-> "/collections"])
  /\ ((loaderPc = "done" /\ paramsHandle # NoHandle /\ paramsHandle \notin store
         /\ outcome.kind # "error")
        => (outcome.kind = "response" /\ outcome.status = 404))
  /\ (outcome.kind = "data"
        => (paramsHandle # NoHandle /\ paramsHandle \in store /\ Len(queries) = 1))

C9_NotFoundReached ==
  /\ loaderPc = "done"
  /\ outcome.kind = "response"
  /\ paramsHandle # NoHandle
  /\ paramsHandle \notin store

\* C10 as stated: currentSlide is always a multiple of the current
\* imagesPerRow, whatever imageCount is.
C10_AlwaysAligned == currentSlide % imagesPerRow = 0

\* C10 amended: currentSlide is a multiple of the current imagesPerRow
\* whenever imageCount is a multiple of the current imagesPerRow.
C10_AlignedWhenCountIsMultiple ==
  imageCount % imagesPerRow = 0 => currentSlide % imagesPerRow = 0

C10_ScrolledOnAlignedTrack ==
  /\ imageCount % imagesPerRow = 0
  /\ imagesPerRow > 1
  /\ currentSlide > 0
  /\ event \in {"tick", "click", "keyclick"}

====
